---- MODULE Spec2Model ----
(***************************************************************************)
(* KarmaRepository (app/db/repositories/karma_repository.py): a data       *)
(* access object over one collection of karma transaction documents.       *)
(*                                                                         *)
(* Time is counted in ticks of the clock's resolution; a calendar day is   *)
(* DayLen ticks long, so that tick D*DayLen is D 00:00:00.000000 and tick  *)
(* D*DayLen + DayLen - 1 is D 23:59:59.999999.                             *)
(***************************************************************************)
EXTENDS Integers, Sequences, FiniteSets

VARIABLES
    collection,   \* self.collection: the stored documents, in insertion order
    clock,        \* the wall clock read by datetime.now(UTC)
    pc,           \* per task: where its create_transaction call stands
    local,        \* per task: transaction_dict and the clock seen by the caller
    call,         \* the query a reading client makes: operation and arguments
    reply,        \* the store's answer the reading coroutine is awaiting
    ret           \* the value the last completed operation returned

vars == <<collection, clock, pc, local, call, reply, ret>>

----------------------------------------------------------------------------
(* Bounds of the model *)

MaxTxns  == 2     \* create_transaction calls made in one behaviour
MaxDocs  == 3     \* documents of a store content the queries are run on
MaxDatedDocs == 2 \* the same, for the queries that take a date range
MaxClock == 2     \* last tick a stored created_at or a date argument takes
MaxTicks == 1     \* ticks the clock makes while create_transaction calls run
DayLen   == 2     \* ticks in a calendar day
MaxLimit == 3     \* largest limit passed to get_top_users

----------------------------------------------------------------------------
(* Values *)

Tasks       == {"t1", "t2"}
Users       == {"A", "B"}
ManyUsers   == <<"A", "B", "C", "D", "E">>
Domains     == {"", "x", "y"}
ActionTypes == {"LIKE", "POST"}
Times       == 0..MaxClock

\* Python's None, for an Optional[datetime] and for an Optional[str]
NoneDate == -1
NoneStr  == "<None>"
\* a key the query dict does not hold
NoKey    == "<no key>"

DateArgs   == {NoneDate} \cup Times
DomainArgs == {NoneStr} \cup Domains
\* line 166: limit: int = 10
DefaultLimit == 10

LimitArgs  == ((-1)..MaxLimit) \cup {DefaultLimit}

\* KarmaTransactionCreate payloads passed to create_transaction
Payloads ==
    { [user |-> "A", points |-> 5,  action_type |-> "LIKE", domain |-> "x"],
      [user |-> "B", points |-> 10, action_type |-> "POST", domain |-> "x"] }

NoDict == [user |-> NoKey]
NoRet  == [op |-> "none"]
NoReply == [op |-> "none"]

Min(a, b) == IF a <= b THEN a ELSE b

----------------------------------------------------------------------------
(* create_transaction *)

\* mutant: every inserted document gets the same ObjectId
NewObjectId_reused(coll) == 1

\* ObjectId generated for an inserted document: distinct from every stored one
NewObjectId(coll) == Len(coll) + 1

\* line 24: transaction.model_dump()
model_dump(payload) ==
    [user |-> payload.user, points |-> payload.points,
     action_type |-> payload.action_type, domain |-> payload.domain,
     created_at |-> NoneDate, updated_at |-> NoneDate, _id |-> 0]

\* line 25: transaction_dict["created_at"] = datetime.now(UTC)
StampCreated(dict, now) == [dict EXCEPT !.created_at = now]

\* line 26: transaction_dict["updated_at"] = datetime.now(UTC)
StampUpdated(dict, now) == [dict EXCEPT !.updated_at = now]

\* line 29: insert_one appends the document under a fresh _id
InsertOne(coll, dict) == Append(coll, [dict EXCEPT !._id = NewObjectId(coll)])

InFlight == Cardinality({t \in Tasks : pc[t] \in {"l24", "l26", "l29"}})

\* the caller reads the clock and calls; line 24 builds the dict
create_transaction_call(t) ==
    /\ pc[t] = "idle"
    /\ Len(collection) + InFlight < MaxTxns
    /\ \E payload \in Payloads :
         local' = [local EXCEPT ![t] = [dict |-> model_dump(payload),
                                        called_at |-> clock]]
    /\ pc' = [pc EXCEPT ![t] = "l24"]
    /\ UNCHANGED <<collection, clock, call, reply, ret>>

create_transaction_l25(t) ==
    /\ pc[t] = "l24"
    /\ local' = [local EXCEPT ![t].dict = StampCreated(@, clock)]
    /\ pc' = [pc EXCEPT ![t] = "l26"]
    /\ UNCHANGED <<collection, clock, call, reply, ret>>

create_transaction_l26(t) ==
    /\ pc[t] = "l26"
    /\ local' = [local EXCEPT ![t].dict = StampUpdated(@, clock)]
    /\ pc' = [pc EXCEPT ![t] = "l29"]
    /\ UNCHANGED <<collection, clock, call, reply, ret>>

\* line 29: the store performs the insert; line 32 records inserted_id
create_transaction_l29(t) ==
    /\ pc[t] = "l29"
    /\ collection' = InsertOne(collection, local[t].dict)
    /\ local' = [local EXCEPT ![t].dict._id = NewObjectId(collection)]
    /\ pc' = [pc EXCEPT ![t] = "l33"]
    /\ UNCHANGED <<clock, call, reply, ret>>

\* line 33: return KarmaTransaction(**transaction_dict)
create_transaction_return(t) ==
    /\ pc[t] = "l33"
    /\ ret' = [op |-> "create_transaction", status |-> "ok",
               called_at |-> local[t].called_at, value |-> local[t].dict]
    /\ local' = [local EXCEPT ![t] = [dict |-> NoDict, called_at |-> NoneDate]]
    /\ pc' = [pc EXCEPT ![t] = "idle"]
    /\ UNCHANGED <<collection, clock, call, reply>>

\* the wall clock advances on its own
Tick ==
    /\ clock < MaxTicks
    /\ clock' = clock + 1
    /\ UNCHANGED <<collection, pc, local, call, reply, ret>>

----------------------------------------------------------------------------
(* Query construction and the store's query stages *)

\* truth value of an Optional[datetime]: a datetime is always true, None false
DateTruthy(d) == d # NoneDate

\* truth value of an Optional[str]: None and "" are false
StrTruthy(s) == s # NoneStr /\ s # ""

EmptyQuery ==
    [user |-> NoKey, domain |-> NoKey, action_type |-> NoKey,
     gte |-> NoneDate, lte |-> NoneDate]

\* lines 44-49 (73-78, 98-103, 124-129): the created_at range of the query
DateRange(query, start_date, end_date) ==
    IF DateTruthy(start_date) \/ DateTruthy(end_date)
    THEN [query EXCEPT
            !.gte = IF DateTruthy(start_date) THEN start_date ELSE NoneDate,
            !.lte = IF DateTruthy(end_date) THEN end_date ELSE NoneDate]
    ELSE query

\* lines 43, 97
UserQuery(user_id, start_date, end_date) ==
    DateRange([EmptyQuery EXCEPT !.user = user_id], start_date, end_date)

\* mutant: the domain key is left out of the query
UserDomainQuery_noDomain(user_id, domain, start_date, end_date) ==
    DateRange([EmptyQuery EXCEPT !.user = user_id], start_date, end_date)

\* lines 69-72, 120-123
UserDomainQuery(user_id, domain, start_date, end_date) ==
    DateRange([EmptyQuery EXCEPT !.user = user_id, !.domain = domain],
              start_date, end_date)

\* mutant: $lt in place of $lte, the upper bound is exclusive
Matches_exclusive(doc, query) ==
    /\ query.user = NoKey \/ doc.user = query.user
    /\ query.domain = NoKey \/ doc.domain = query.domain
    /\ query.action_type = NoKey \/ doc.action_type = query.action_type
    /\ query.gte = NoneDate \/ doc.created_at >= query.gte
    /\ query.lte = NoneDate \/ doc.created_at < query.lte

\* a document satisfies a query dict: equality on the keys present,
\* $gte / $lte on created_at
Matches(doc, query) ==
    /\ query.user = NoKey \/ doc.user = query.user
    /\ query.domain = NoKey \/ doc.domain = query.domain
    /\ query.action_type = NoKey \/ doc.action_type = query.action_type
    /\ query.gte = NoneDate \/ doc.created_at >= query.gte
    /\ query.lte = NoneDate \/ doc.created_at <= query.lte

\* {"$match": query} and find(query): the matching documents in scan order
Match(coll, query) == SelectSeq(coll, LAMBDA doc : Matches(doc, query))

RECURSIVE SumPoints(_)
SumPoints(docs) ==
    IF docs = <<>> THEN 0 ELSE Head(docs).points + SumPoints(Tail(docs))

\* {"$group": {"_id": None, "total": {"$sum": "$points"}}}: one group when
\* any document comes in, none otherwise
GroupAll(docs) ==
    IF docs = <<>> THEN <<>>
    ELSE << [_id |-> NoneStr, total |-> SumPoints(docs)] >>

\* lines 57-58, 86-87
TotalOrZero(result) == IF result # <<>> THEN result[1].total ELSE 0

\* lines 43-58
get_user_karma_value(coll, user_id, start_date, end_date) ==
    TotalOrZero(GroupAll(Match(coll, UserQuery(user_id, start_date, end_date))))

\* lines 69-87
get_user_karma_by_domain_value(coll, user_id, domain, start_date, end_date) ==
    TotalOrZero(GroupAll(Match(coll,
        UserDomainQuery(user_id, domain, start_date, end_date))))


\* the permutations of 1..n
Perms(n) == {f \in [1..n -> 1..n] : \A i, j \in 1..n : i # j => f[i] # f[j]}

\* mutant: sort("created_at", 1), ascending
SortCreatedDesc_ascending(docs) ==
    LET n == Len(docs) IN
    { [i \in 1..n |-> docs[f[i]]] :
        f \in {g \in Perms(n) :
                 \A i \in 1..(n - 1) :
                    docs[g[i]].created_at <= docs[g[i + 1]].created_at} }

\* .sort("created_at", -1): the documents by created_at descending; the
\* store fixes no order among documents whose created_at is equal
SortCreatedDesc(docs) ==
    LET n == Len(docs) IN
    { [i \in 1..n |-> docs[f[i]]] :
        f \in {g \in Perms(n) :
                 \A i \in 1..(n - 1) :
                    docs[g[i]].created_at >= docs[g[i + 1]].created_at} }

\* lines 97-109: the sequences get_user_actions can return
get_user_actions_values(coll, user_id, start_date, end_date) ==
    SortCreatedDesc(Match(coll, UserQuery(user_id, start_date, end_date)))

\* lines 120-135: the sequences get_user_actions_by_domain can return
get_user_actions_by_domain_values(coll, user_id, domain, start_date, end_date) ==
    SortCreatedDesc(Match(coll,
        UserDomainQuery(user_id, domain, start_date, end_date)))

\* date.date(): the calendar day of a datetime
DateOf(dt) == dt \div DayLen

\* datetime.combine(day, time)
Combine(day, time) == day * DayLen + time

\* datetime.min.time() is 00:00:00.000000, datetime.max.time() 23:59:59.999999
MinTimeOfDay == 0
\* mutant: the day ends at the next midnight
MaxTimeOfDay_nextMidnight == DayLen
MaxTimeOfDay == DayLen - 1

\* lines 145-156
TodayQuery(user_id, action_type, date) ==
    LET start_of_day == Combine(DateOf(date), MinTimeOfDay)
        end_of_day   == Combine(DateOf(date), MaxTimeOfDay)
    IN  [EmptyQuery EXCEPT !.user = user_id, !.action_type = action_type,
                           !.gte = start_of_day, !.lte = end_of_day]

\* line 159: find(query) without a sort: the matching documents in the
\* order the store scans them, which the store does not fix
ScanOrders(docs) ==
    LET n == Len(docs) IN { [i \in 1..n |-> docs[f[i]]] : f \in Perms(n) }

\* lines 145-162: the sequences get_user_actions_today can return
get_user_actions_today_values(coll, user_id, action_type, date) ==
    ScanOrders(Match(coll, TodayQuery(user_id, action_type, date)))

\* lines 171-173: the match stage of get_top_users
TopMatch(domain) ==
    IF StrTruthy(domain) THEN [EmptyQuery EXCEPT !.domain = domain]
    ELSE EmptyQuery

\* lines 178-182: {"$group": {"_id": "$user.id", "total_points": {"$sum":
\* "$points"}, "user": {"$first": "$user"}}}: one group per user.id met
GroupByUser(docs) ==
    { LET mine == SelectSeq(docs, LAMBDA doc : doc.user = u)
      IN  [_id |-> u, total_points |-> SumPoints(mine), user |-> Head(mine).user] :
      u \in {docs[i].user : i \in 1..Len(docs)} }

\* mutant: {"$sort": {"total_points": 1}}, ascending
SortTotalDesc_ascending(groups) ==
    LET n == Cardinality(groups) IN
    {s \in [1..n -> groups] :
        /\ \A i, j \in 1..n : i # j => s[i] # s[j]
        /\ \A i \in 1..(n - 1) : s[i].total_points <= s[i + 1].total_points}

\* line 183: {"$sort": {"total_points": -1}}: the groups by total_points
\* descending; the store fixes no order among groups of equal total_points
SortTotalDesc(groups) ==
    LET n == Cardinality(groups) IN
    {s \in [1..n -> groups] :
        /\ \A i, j \in 1..n : i # j => s[i] # s[j]
        /\ \A i \in 1..(n - 1) : s[i].total_points >= s[i + 1].total_points}

\* line 184: {"$limit": limit}: the first limit results
Limit(results, limit) == SubSeq(results, 1, Min(limit, Len(results)))

\* the store accepts a $limit stage only with a positive limit
LimitAccepted(limit) == limit > 0

\* lines 171-188: the sequences get_top_users can return
get_top_users_values(coll, limit, domain) ==
    { Limit(s, limit) : s \in SortTotalDesc(GroupByUser(Match(coll, TopMatch(domain)))) }

----------------------------------------------------------------------------
(* The read operations, applied to the reading client's call *)

NoArgs ==
    [user_id |-> NoKey, domain |-> NoKey, start_date |-> NoneDate,
     end_date |-> NoneDate, action_type |-> NoKey, date |-> NoneDate,
     limit |-> 0]

NoCall == [op |-> "none", args |-> NoArgs]

\* the store evaluates the query of the call on the collection as it is
\* now; the reading coroutine stays suspended in its await
Replied(op, status, value) ==
    /\ reply = NoReply
    /\ reply' = [op |-> op, status |-> status, value |-> value]
    /\ UNCHANGED <<collection, clock, pc, local, call, ret>>

\* the reading coroutine is resumed with the store's answer and returns
Returned(op, value) ==
    /\ reply.op = op
    /\ ret' = [op |-> op, status |-> reply.status, value |-> value]
    /\ reply' = NoReply
    /\ UNCHANGED <<collection, clock, pc, local, call>>

\* line 57: await self.collection.aggregate(pipeline).to_list(length=1)
get_user_karma_l57 ==
    /\ call.op = "get_user_karma"
    /\ Replied(call.op, "ok",
               GroupAll(Match(collection,
                   UserQuery(call.args.user_id, call.args.start_date,
                             call.args.end_date))))

\* line 58
get_user_karma_return ==
    Returned("get_user_karma", TotalOrZero(reply.value))

\* line 86
get_user_karma_by_domain_l86 ==
    /\ call.op = "get_user_karma_by_domain"
    /\ Replied(call.op, "ok",
               GroupAll(Match(collection,
                   UserDomainQuery(call.args.user_id, call.args.domain,
                                   call.args.start_date, call.args.end_date))))

\* line 87
get_user_karma_by_domain_return ==
    Returned("get_user_karma_by_domain", TotalOrZero(reply.value))

\* lines 106-107
get_user_actions_l107 ==
    /\ call.op = "get_user_actions"
    /\ \E transactions \in get_user_actions_values(collection,
              call.args.user_id, call.args.start_date, call.args.end_date) :
          Replied(call.op, "ok", transactions)

\* line 109
get_user_actions_return ==
    Returned("get_user_actions", reply.value)

\* lines 132-133
get_user_actions_by_domain_l133 ==
    /\ call.op = "get_user_actions_by_domain"
    /\ \E transactions \in get_user_actions_by_domain_values(collection,
              call.args.user_id, call.args.domain,
              call.args.start_date, call.args.end_date) :
          Replied(call.op, "ok", transactions)

\* line 135
get_user_actions_by_domain_return ==
    Returned("get_user_actions_by_domain", reply.value)

\* lines 159-160
get_user_actions_today_l160 ==
    /\ call.op = "get_user_actions_today"
    /\ \E transactions \in get_user_actions_today_values(collection,
              call.args.user_id, call.args.action_type, call.args.date) :
          Replied(call.op, "ok", transactions)

\* line 162
get_user_actions_today_return ==
    Returned("get_user_actions_today", reply.value)

\* line 187: the store runs the pipeline, or rejects its $limit stage
get_top_users_l187 ==
    /\ call.op = "get_top_users"
    /\ IF LimitAccepted(call.args.limit)
       THEN \E result \in get_top_users_values(collection, call.args.limit,
                                               call.args.domain) :
               Replied(call.op, "ok", result)
       ELSE Replied(call.op, "OperationFailure", <<>>)

\* line 188, or the store's error raised out of the await of line 187
get_top_users_return ==
    Returned("get_top_users", reply.value)

----------------------------------------------------------------------------
(* The calls a reading client can make *)

KarmaCalls ==
    { [op |-> "get_user_karma",
       args |-> [NoArgs EXCEPT !.user_id = u, !.start_date = s, !.end_date = e]] :
      u \in Users, s \in DateArgs, e \in DateArgs }

KarmaByDomainCalls ==
    { [op |-> "get_user_karma_by_domain",
       args |-> [NoArgs EXCEPT !.user_id = x[1], !.domain = x[2],
                               !.start_date = x[3], !.end_date = x[4]]] :
      x \in Users \X {"", "x"} \X DateArgs \X DateArgs }

ActionsCalls ==
    { [op |-> "get_user_actions", args |-> c.args] : c \in KarmaCalls }

ActionsByDomainCalls ==
    { [op |-> "get_user_actions_by_domain", args |-> c.args] :
      c \in KarmaByDomainCalls }

TodayCalls ==
    { [op |-> "get_user_actions_today",
       args |-> [NoArgs EXCEPT !.user_id = u, !.action_type = a, !.date = d]] :
      u \in Users, a \in ActionTypes, d \in Times }

TopCalls ==
    { [op |-> "get_top_users",
       args |-> [NoArgs EXCEPT !.limit = l, !.domain = d]] :
      l \in LimitArgs, d \in DomainArgs }

Unbounded(c) == c.args.start_date = NoneDate /\ c.args.end_date = NoneDate

\* the calls polled while create_transaction calls run: every operation,
\* for user A, without a date range
PolledCalls ==
    {c \in KarmaCalls \cup KarmaByDomainCalls \cup ActionsCalls
            \cup ActionsByDomainCalls \cup TodayCalls :
        /\ c.args.user_id = "A"
        /\ Unbounded(c)
        /\ c.args.domain \in {NoKey, "x"}
        /\ c.args.action_type \in {NoKey, "LIKE"}
        /\ c.args.date \in {NoneDate, 0}}
    \cup {c \in TopCalls : c.args.limit = DefaultLimit
                            /\ c.args.domain = NoneStr}

----------------------------------------------------------------------------
(* Store contents the queries are run on *)

Doc(user, points, action_type, domain, created_at) ==
    [user |-> user, points |-> points, action_type |-> action_type,
     domain |-> domain, created_at |-> created_at, updated_at |-> created_at,
     _id |-> 0]

\* the documents in the order given, under the ids the store assigned
Stored(docs) == [i \in 1..Len(docs) |-> [docs[i] EXCEPT !._id = i]]

StoresOf(D, max) == { Stored(f) : f \in UNION { [1..n -> D] : n \in 0..max } }

KarmaDocs ==
    { Doc(u, p, "LIKE", d, t) : u \in Users, p \in {-3, 5}, d \in {"x", "y"},
                                t \in Times }

\* stamped with the ticks the clock makes while create_transaction calls run
ActionDocs ==
    { Doc(ud[1], 5, "LIKE", ud[2], t) :
      ud \in { <<"A", "x">>, <<"A", "y">>, <<"B", "x">> }, t \in 0..MaxTicks }

TodayDocs ==
    { Doc(u, 5, a, "x", t) : u \in Users, a \in ActionTypes, t \in Times }

TopDocs ==
    { Doc(u, p, "LIKE", d, 0) : u \in Users, p \in {-3, 3, 5}, d \in {"", "x"} }

\* section 8 of the specification: A:5(x), A:3(y), B:10(x)
ScenarioStore ==
    Stored(<< Doc("A", 5, "LIKE", "x", 0), Doc("A", 3, "LIKE", "y", 1),
              Doc("B", 10, "POST", "x", 2) >>)

\* five users, one document each, with distinct points
FiveUserStores ==
    { Stored([i \in 1..5 |-> Doc(ManyUsers[i], 2 * p[i], "LIKE", "x", 0)]) :
      p \in Perms(5) }

----------------------------------------------------------------------------
(* Specifications *)

Quiet ==
    /\ pc = [t \in Tasks |-> "idle"]
    /\ local = [t \in Tasks |-> [dict |-> NoDict, called_at |-> NoneDate]]
    /\ reply = NoReply
    /\ ret = NoRet

\* the repository on an empty collection, a reading client polling one query
Init ==
    /\ collection = <<>>
    /\ clock = 0
    /\ call \in PolledCalls
    /\ Quiet

Create ==
    \E t \in Tasks :
        \/ create_transaction_call(t)
        \/ create_transaction_l25(t)
        \/ create_transaction_l26(t)
        \/ create_transaction_l29(t)
        \/ create_transaction_return(t)

Read ==
    \/ get_user_karma_l57
    \/ get_user_karma_return
    \/ get_user_karma_by_domain_l86
    \/ get_user_karma_by_domain_return
    \/ get_user_actions_l107
    \/ get_user_actions_return
    \/ get_user_actions_by_domain_l133
    \/ get_user_actions_by_domain_return
    \/ get_user_actions_today_l160
    \/ get_user_actions_today_return
    \/ get_top_users_l187
    \/ get_top_users_return

Next == Tick \/ Create \/ Read

Spec == Init /\ [][Next]_vars

\* create_transaction alone, under a running clock
InitCreate ==
    /\ collection = <<>>
    /\ clock = 0
    /\ call = NoCall
    /\ Quiet

NextCreate == Tick \/ Create

SpecCreate == InitCreate /\ [][NextCreate]_vars

\* the karma sums and the action listings on every store content
InitKarma ==
    /\ collection \in StoresOf(KarmaDocs, MaxDatedDocs)
    /\ clock = MaxClock
    /\ call \in KarmaCalls \cup KarmaByDomainCalls
    /\ Quiet

NextKarma ==
    \/ get_user_karma_l57
    \/ get_user_karma_return
    \/ get_user_karma_by_domain_l86
    \/ get_user_karma_by_domain_return

SpecKarma == InitKarma /\ [][NextKarma]_vars

InitActions ==
    /\ collection \in StoresOf(ActionDocs, MaxDocs)
    /\ clock = MaxClock
    /\ call \in {c \in ActionsCalls \cup ActionsByDomainCalls :
                    /\ c.args.user_id = "A"
                    /\ c.args.domain \in {NoKey, "x"}
                    /\ c.args.start_date <= MaxTicks
                    /\ c.args.end_date <= MaxTicks}
    /\ Quiet

NextActions ==
    \/ get_user_actions_l107
    \/ get_user_actions_return
    \/ get_user_actions_by_domain_l133
    \/ get_user_actions_by_domain_return

SpecActions == InitActions /\ [][NextActions]_vars

InitToday ==
    /\ collection \in StoresOf(TodayDocs, MaxDatedDocs)
    /\ clock = MaxClock
    /\ call \in TodayCalls
    /\ Quiet

NextToday == get_user_actions_today_l160 \/ get_user_actions_today_return

SpecToday == InitToday /\ [][NextToday]_vars

InitTop ==
    /\ collection \in StoresOf(TopDocs, MaxDocs) \cup FiveUserStores \cup {ScenarioStore}
    /\ clock = MaxClock
    /\ call \in TopCalls
    /\ Quiet

NextTop == get_top_users_l187 \/ get_top_users_return

SpecTop == InitTop /\ [][NextTop]_vars

----------------------------------------------------------------------------
(* What the operations are required to return, stated on the documents *)

ReadOps ==
    {"get_user_karma", "get_user_karma_by_domain", "get_user_actions",
     "get_user_actions_by_domain", "get_user_actions_today", "get_top_users"}

Indexes == 1..Len(collection)

RECURSIVE SumAt(_)
\* the sum of points over the documents at the indexes S
SumAt(S) ==
    IF S = {} THEN 0
    ELSE LET i == CHOOSE k \in S : TRUE
         IN  collection[i].points + SumAt(S \ {i})

\* start_date <= created_at <= end_date, each bound only when supplied
InRange(i, start_date, end_date) ==
    /\ start_date = NoneDate \/ start_date <= collection[i].created_at
    /\ end_date = NoneDate \/ collection[i].created_at <= end_date

\* the documents the user / date-range filter of the call selects, with the
\* exact domain match for the by_domain operations
Selected ==
    { i \in Indexes :
        /\ collection[i].user = call.args.user_id
        /\ InRange(i, call.args.start_date, call.args.end_date)
        /\ call.op \in {"get_user_karma_by_domain", "get_user_actions_by_domain"}
              => collection[i].domain = call.args.domain }

\* C1: get_user_karma and get_user_karma_by_domain return the sum of points
\* over exactly the documents of the user (and domain) whose created_at lies
\* in [start_date, end_date], each bound applied only when supplied and both
\* inclusive, and 0 when no document matches.
C1_KarmaIsSumOverRange ==
    ret.op \in {"get_user_karma", "get_user_karma_by_domain"} =>
        /\ ret.status = "ok"
        /\ ret.value = SumAt(Selected)

\* a sum over two documents, one created exactly at start_date and one
\* exactly at end_date
C1_Witness ==
    /\ ret.op \in {"get_user_karma", "get_user_karma_by_domain"}
    /\ call.args.start_date # NoneDate
    /\ call.args.start_date < call.args.end_date
    /\ \E i, j \in Selected :
         /\ collection[i].created_at = call.args.start_date
         /\ collection[j].created_at = call.args.end_date
    /\ ret.value # 0

\* C2: the entity create_transaction returns has created_at equal to
\* updated_at, and neither is earlier than the clock just before the call.
C2_StampsEqualAndNotEarlier ==
    ret.op = "create_transaction" =>
        /\ ret.value.created_at = ret.value.updated_at
        /\ ret.value.created_at >= ret.called_at
        /\ ret.value.updated_at >= ret.called_at

\* C3: under every interleaving the collection is an append-only log: a step
\* leaves it unchanged or appends one document whose _id no stored document
\* has; a completed create_transaction has stored its entity exactly once;
\* a step in which the store answers a read operation, or in which a read
\* operation returns, leaves the collection unchanged.
C3_AppendOnlyLog ==
    [][ /\ \/ collection' = collection
           \/ /\ Len(collection') = Len(collection) + 1
              /\ SubSeq(collection', 1, Len(collection)) = collection
              /\ \A i \in Indexes :
                    collection[i]._id # collection'[Len(collection')]._id
        /\ (ret' # ret /\ ret'.op = "create_transaction") =>
              Cardinality({i \in 1..Len(collection') :
                              collection'[i] = ret'.value}) = 1
        /\ (ret' # ret /\ ret'.op \in ReadOps) => collection' = collection
        /\ reply' # reply => collection' = collection
      ]_vars

\* two tasks have each stored a document of user A, one of them has not
\* returned yet, and the second insert landed while get_user_actions was
\* awaiting the store's answer, which holds the first document alone
C3_Witness ==
    /\ Len(collection) = 2
    /\ collection[1]._id # collection[2]._id
    /\ collection[1].user = "A" /\ collection[2].user = "A"
    /\ \E t \in Tasks : pc[t] = "l33"
    /\ reply.op = "get_user_actions"
    /\ reply.value = <<collection[1]>>

\* the calendar day D of the reference date passed to get_user_actions_today
RefDay == CHOOSE D \in 0..MaxClock :
              D * DayLen <= call.args.date /\ call.args.date < (D + 1) * DayLen

\* C4: get_user_actions_today returns exactly the documents of the user and
\* action type with created_at in [D 00:00:00.000000, D 23:59:59.999999],
\* D the day of the reference date whatever its time of day: the last tick
\* of D is in, the first tick of D+1 is out.
C4_TodayIsTheCalendarDay ==
    ret.op = "get_user_actions_today" =>
        /\ ret.status = "ok"
        /\ \A k \in 1..Len(ret.value) :
              \E i \in Indexes : collection[i] = ret.value[k]
        /\ \A k, l \in 1..Len(ret.value) :
              k # l => ret.value[k]._id # ret.value[l]._id
        /\ \A i \in Indexes :
              (\E k \in 1..Len(ret.value) : ret.value[k] = collection[i])
              <=> /\ collection[i].user = call.args.user_id
                  /\ collection[i].action_type = call.args.action_type
                  /\ RefDay * DayLen <= collection[i].created_at
                  /\ collection[i].created_at < (RefDay + 1) * DayLen

\* the reference date is not midnight; a document at D 23:59:59.999999 is
\* returned and one at (D+1) 00:00:00.000000, same user and type, is not
C4_Witness ==
    /\ ret.op = "get_user_actions_today"
    /\ call.args.date # RefDay * DayLen
    /\ \E k \in 1..Len(ret.value) :
          ret.value[k].created_at = (RefDay + 1) * DayLen - 1
    /\ \E i \in Indexes :
          /\ collection[i].user = call.args.user_id
          /\ collection[i].action_type = call.args.action_type
          /\ collection[i].created_at = (RefDay + 1) * DayLen
          /\ \A k \in 1..Len(ret.value) : ret.value[k] # collection[i]

\* the users with a document whose domain the predicate accepts, and the
\* sum of such a user's points
UsersIn(D) == {collection[i].user : i \in {k \in Indexes : collection[k].domain \in D}}
TotalIn(u, D) ==
    SumAt({i \in Indexes : collection[i].user = u /\ collection[i].domain \in D})

AllDomains == {collection[i].domain : i \in Indexes}

\* the result is the first `limit` entries of a listing of the users of D by
\* total points, non-increasing
IsTopOf(result, limit, D) ==
    /\ Len(result) = Min(limit, Cardinality(UsersIn(D)))
    /\ \A k \in 1..Len(result) :
          /\ result[k]._id \in UsersIn(D)
          /\ result[k].total_points = TotalIn(result[k]._id, D)
    /\ \A k, l \in 1..Len(result) : k # l => result[k]._id # result[l]._id
    /\ \A k \in 1..(Len(result) - 1) :
          result[k].total_points >= result[k + 1].total_points
    /\ \A u \in UsersIn(D) :
          (\A k \in 1..Len(result) : result[k]._id # u) =>
              \A k \in 1..Len(result) : result[k].total_points >= TotalIn(u, D)

\* C5: get_top_users(limit) with a positive limit returns one entry per
\* user.id, with that user's summed points, by total_points non-increasing,
\* cut to the first limit entries; five users of distinct totals and limit 3
\* give the three highest in descending order; the scenario A:5(x), A:3(y),
\* B:10(x) gives [B:10, A:8].
C5_TopUsersSortedAndCut ==
    (/\ ret.op = "get_top_users"
     /\ call.args.limit > 0
     /\ call.args.domain = NoneStr) =>
        /\ ret.status = "ok"
        /\ IsTopOf(ret.value, call.args.limit, AllDomains)
        /\ (collection \in FiveUserStores /\ call.args.limit = 3) =>
              [k \in 1..3 |-> ret.value[k].total_points] = <<10, 8, 6>>
        /\ (collection = ScenarioStore /\ call.args.limit = DefaultLimit) =>
              [k \in 1..2 |-> <<ret.value[k]._id, ret.value[k].total_points>>]
                 = << <<"B", 10>>, <<"A", 8>> >>

\* five users of distinct totals, limit 3: three entries returned
C5_Witness ==
    /\ ret.op = "get_top_users"
    /\ collection \in FiveUserStores
    /\ call.args.limit = 3
    /\ call.args.domain = NoneStr
    /\ Len(ret.value) = 3
    /\ ret.value[3].total_points = 6

\* the domains the user of the call has a document in
DomainsOfUser ==
    {collection[i].domain : i \in {k \in Indexes : collection[k].user = call.args.user_id}}

RECURSIVE SumByDomain(_)
\* the sum of get_user_karma_by_domain(user, d) over the domains d of S
SumByDomain(S) ==
    IF S = {} THEN 0
    ELSE LET d == CHOOSE x \in S : TRUE
         IN  get_user_karma_by_domain_value(collection, call.args.user_id, d,
                                            NoneDate, NoneDate)
             + SumByDomain(S \ {d})

\* C6: get_user_karma(user) without date bounds equals the sum of
\* get_user_karma_by_domain(user, d) over the domains d the user has a
\* document in, on the same store content.
C6_KarmaIsSumOfDomains ==
    (ret.op = "get_user_karma" /\ Unbounded(call)) =>
        ret.value = SumByDomain(DomainsOfUser)

\* the user has documents in two domains and a karma that is not zero
C6_Witness ==
    /\ ret.op = "get_user_karma"
    /\ Unbounded(call)
    /\ Cardinality(DomainsOfUser) = 2
    /\ ret.value # 0

\* C7: get_user_actions and get_user_actions_by_domain return exactly the
\* documents the user / date-range (and domain) filter selects, each once,
\* with created_at non-increasing along the sequence.
C7_ActionsSelectedAndDescending ==
    ret.op \in {"get_user_actions", "get_user_actions_by_domain"} =>
        /\ ret.status = "ok"
        /\ Len(ret.value) = Cardinality(Selected)
        /\ \A i \in Selected : \E k \in 1..Len(ret.value) : ret.value[k] = collection[i]
        /\ \A k \in 1..Len(ret.value) : \E i \in Selected : ret.value[k] = collection[i]
        /\ \A k \in 1..(Len(ret.value) - 1) :
              ret.value[k].created_at >= ret.value[k + 1].created_at

\* two documents selected and returned latest first, the later one stored
\* last, and a third document left out
C7_Witness ==
    /\ ret.op \in {"get_user_actions", "get_user_actions_by_domain"}
    /\ Len(ret.value) = 2
    /\ ret.value[1].created_at > ret.value[2].created_at
    /\ ret.value[1]._id > ret.value[2]._id
    /\ call.args.end_date # NoneDate
    /\ \E i \in Indexes : i \notin Selected

\* C8: get_top_users with limit <= 0 returns an empty sequence and raises
\* no error.
C8_NonPositiveLimitIsEmpty ==
    (ret.op = "get_top_users" /\ call.args.limit <= 0) =>
        /\ ret.status = "ok"
        /\ ret.value = <<>>

\* C9: two calls of get_top_users with the same arguments on the same store
\* content return the same sequence.
C9_TopUsersDeterministic ==
    [][ (/\ ret.op = "get_top_users"
         /\ ret'.op = "get_top_users"
         /\ call' = call
         /\ collection' = collection) => ret' = ret ]_vars

\* C10: when a domain argument is supplied to get_top_users, the empty
\* string included, only documents of that domain make up the groups and
\* their totals; all documents do when no domain is supplied.
C10_TopUsersDomainFilter ==
    (ret.op = "get_top_users" /\ ret.status = "ok") =>
        IsTopOf(ret.value, call.args.limit,
                IF call.args.domain = NoneStr THEN AllDomains
                ELSE {call.args.domain})

====
